---------------------------- MODULE Spec2Model ----------------------------
(***************************************************************************)
(* pyjaubas: JAudio Sound Animation (BAS) codec, src/pyjaubas/bas.py.      *)
(*                                                                         *)
(* Strings are sequences of one-character strings, byte buffers are        *)
(* sequences of 0..255, a dict is a sequence of <<key, value>> pairs in    *)
(* insertion order.  An operation that raises returns [ok |-> FALSE,       *)
(* err |-> <exception name>]; one that returns, [ok |-> TRUE, val |-> v].  *)
(***************************************************************************)
EXTENDS Integers, Sequences, FiniteSets, TLC

VARIABLES
    lookup_file,   \* the lookup-table file: its lines (readlines()), or NoFile
    lookup,        \* the JAUSoundIdTable the caller holds (its _lookup_ dict), or NoTable
    soundanm,      \* the JAUSoundAnimation the caller holds, or NoAnm
    data,          \* the byte buffer the caller holds
    bas_file,      \* content of the BAS file on disk (bytes), or NoFile
    json_file,     \* content of the JSON file on disk (the dumped tree), or NoFile
    open_files,    \* files opened by the library and not closed yet
    op,            \* the last library operation, with its arguments
    err,           \* the exception the last operation raised, or "none"
    ret,           \* the value the last operation returned, or NoValue
    quiet_nan,     \* the build: TRUE when float<->double conversion quiets signalling NaNs
    origin,        \* history: how soundanm came to be (fresh, from JSON, decoded from
                   \*   which buffer at which offset in which byte order)
    packed,        \* history: the animation and byte order pack_buffer made data from,
                   \*   and whether that animation was an unedited decode result
    edits          \* number of caller edits made to soundanm

vars == <<lookup_file, lookup, soundanm, data, bas_file, json_file, open_files,
          op, err, ret, quiet_nan, origin, packed, edits>>

NoFile == <<"NoFile">>
NoTable == <<"NoTable">>
NoAnm == [none |-> "animation"]
NoJson == [none |-> "json"]
NoValue == [none |-> "value"]
NoPack == [none |-> "pack"]

\* a Python str: its characters
Str(chars) == [str |-> chars]

Ok(v) == [ok |-> TRUE, val |-> v]
Raise(e) == [ok |-> FALSE, err |-> e]

\* ------------------------------------------------------------------------
\* Bounds of the model
\* ------------------------------------------------------------------------
MaxLines == 3      \* lines in a lookup file
MaxEntries == 2    \* entries in an animation or an input buffer
MaxEdits == 2      \* caller edits of one animation

\* ------------------------------------------------------------------------
\* str helpers (Python built-ins used by JAUSoundIdTable.__init__)
\* ------------------------------------------------------------------------
LF == "\n"
CR == "\r"
Digits == <<"0", "1", "2", "3", "4", "5", "6", "7", "8", "9">>

IsDigit(c) == \E d \in 1..10 : Digits[d] = c
DigitVal(c) == (CHOOSE d \in 1..10 : Digits[d] = c) - 1

\* str.strip("\r\n"): drops leading and trailing CR / LF characters
RECURSIVE LStrip(_)
LStrip(s) ==
    IF s # <<>> /\ Head(s) \in {CR, LF} THEN LStrip(Tail(s)) ELSE s

RECURSIVE RStrip(_)
RStrip(s) ==
    IF s # <<>> /\ s[Len(s)] \in {CR, LF} THEN RStrip(SubSeq(s, 1, Len(s) - 1)) ELSE s

Strip(s) == RStrip(LStrip(s))

\* str.split(","): the list of fields between commas (always at least one field)
RECURSIVE SplitFrom(_, _, _)
SplitFrom(s, cur, acc) ==
    IF s = <<>> THEN Append(acc, cur)
    ELSE IF Head(s) = "," THEN SplitFrom(Tail(s), <<>>, Append(acc, cur))
    ELSE SplitFrom(Tail(s), Append(cur, Head(s)), acc)

Split(s) == SplitFrom(s, <<>>, <<>>)

\* int(str): optional sign, then one or more decimal digits; ValueError otherwise
RECURSIVE DigitsValue(_, _)
DigitsValue(s, acc) ==
    IF s = <<>> THEN acc ELSE DigitsValue(Tail(s), acc * 10 + DigitVal(Head(s)))

ParseInt(s) ==
    LET signed == s # <<>> /\ Head(s) \in {"-", "+"}
        body == IF signed THEN Tail(s) ELSE s
    IN  IF body = <<>> \/ \E i \in 1..Len(body) : ~IsDigit(body[i])
        THEN Raise("ValueError")
        ELSE Ok(IF signed /\ Head(s) = "-" THEN 0 - DigitsValue(body, 0)
                ELSE DigitsValue(body, 0))

\* ------------------------------------------------------------------------
\* dict with insertion order
\* ------------------------------------------------------------------------
DictHas(d, k) == \E i \in 1..Len(d) : d[i][1] = k
DictIndex(d, k) == CHOOSE i \in 1..Len(d) : d[i][1] = k
DictGet(d, k) == d[DictIndex(d, k)][2]

\* d[k] = v: an existing key keeps its position, a new key goes last
DictSet(d, k, v) ==
    IF DictHas(d, k) THEN [d EXCEPT ![DictIndex(d, k)] = <<k, v>>]
    ELSE Append(d, <<k, v>>)

\* ------------------------------------------------------------------------
\* JAUSoundIdTable
\* ------------------------------------------------------------------------
\* faulty variant: a line that does not split into two fields is skipped
TableLine_skip(d, field) ==
    LET parts == Split(Strip(field))
    IN  IF Len(parts) # 2 THEN Ok(d)
        ELSE LET n == ParseInt(parts[2])
             IN  IF ~n.ok THEN n ELSE Ok(DictSet(d, Str(parts[1]), n.val))

\* one iteration of the loop of __init__ (lines 34-35)
TableLine(d, field) ==
    LET parts == Split(Strip(field))
    IN  IF Len(parts) # 2 THEN Raise("ValueError")
        ELSE LET n == ParseInt(parts[2])
             IN  IF ~n.ok THEN n ELSE Ok(DictSet(d, Str(parts[1]), n.val))

RECURSIVE TableLines(_, _)
TableLines(d, lines) ==
    IF lines = <<>> THEN Ok(d)
    ELSE LET r == TableLine(d, Head(lines))
         IN  IF ~r.ok THEN r ELSE TableLines(r.val, Tail(lines))

\* JAUSoundIdTable.__init__ on the file content (NoFile: the path does not exist)
TableInit(file) ==
    IF file = NoFile THEN Raise("FileNotFoundError") ELSE TableLines(<<>>, file)

\* faulty variant: the last matching key wins
find_name_last(d, sound_id) ==
    IF \E i \in 1..Len(d) : d[i][2] = sound_id
    THEN LET last == CHOOSE i \in 1..Len(d) :
                 /\ d[i][2] = sound_id
                 /\ \A j \in (i + 1)..Len(d) : d[j][2] # sound_id
         IN  Ok(d[last][1])
    ELSE Raise("KeyError")

\* JAUSoundIdTable.find_name: first key in dict order whose value is sound_id
find_name(d, sound_id) ==
    IF \E i \in 1..Len(d) : d[i][2] = sound_id
    THEN LET first == CHOOSE i \in 1..Len(d) :
                 /\ d[i][2] = sound_id
                 /\ \A j \in 1..(i - 1) : d[j][2] # sound_id
         IN  Ok(d[first][1])
    ELSE Raise("KeyError")

\* JAUSoundIdTable.find_id: self._lookup_[sound_name]
find_id(d, sound_name) ==
    IF DictHas(d, sound_name) THEN Ok(DictGet(d, sound_name)) ELSE Raise("KeyError")

\* ------------------------------------------------------------------------
\* struct: integers
\* ------------------------------------------------------------------------
RECURSIVE Pow2(_)
Pow2(n) == IF n = 0 THEN 1 ELSE 2 * Pow2(n - 1)

RECURSIVE Reverse(_)
Reverse(s) == IF s = <<>> THEN <<>> ELSE Append(Reverse(Tail(s)), Head(s))

RECURSIVE Zeros(_)
Zeros(n) == IF n = 0 THEN <<>> ELSE <<0>> \o Zeros(n - 1)

\* the bytes of one multi-byte field, most significant first
Ordered(bs, is_big_endian) == IF is_big_endian THEN bs ELSE Reverse(bs)

\* bytes data[off .. off+n) of a buffer (off counts from 0)
Slice(buf, off, n) == SubSeq(buf, off + 1, off + n)

\* struct "H" and "I": unpack
UnpackU16(bs, is_big_endian) ==
    LET b == Ordered(bs, is_big_endian) IN b[1] * 256 + b[2]

UnpackU32(bs, is_big_endian) ==
    LET b == Ordered(bs, is_big_endian)
    IN  ((b[1] * 256 + b[2]) * 256 + b[3]) * 256 + b[4]

\* struct "B", "H" and "I": pack; struct.error when the value is out of range
PackU8(v) ==
    IF v < 0 \/ v > 255 THEN Raise("struct.error") ELSE Ok(<<v>>)

PackU16(v, is_big_endian) ==
    IF v < 0 \/ v > 65535 THEN Raise("struct.error")
    ELSE Ok(Ordered(<<v \div 256, v % 256>>, is_big_endian))

\* faulty variant: always big-endian
PackU32_big(v, is_big_endian) ==
    IF v < 0 \/ (v \div 65536) > 65535 THEN Raise("struct.error")
    ELSE Ok(<<v \div 16777216, (v \div 65536) % 256, (v \div 256) % 256, v % 256>>)

PackU32(v, is_big_endian) ==
    IF v < 0 \/ (v \div 65536) > 65535 THEN Raise("struct.error")
    ELSE Ok(Ordered(<<v \div 16777216, (v \div 65536) % 256,
                      (v \div 256) % 256, v % 256>>, is_big_endian))

\* ------------------------------------------------------------------------
\* struct: "f".  A Python float is [k, s, m, e]:
\*   k = "num": (-1)^s * m * 2^e with m odd, or m = 0 and e = 0 (signed zero)
\*   k = "inf": signed infinity;  k = "nan": m holds the 23 fraction bits
\* ------------------------------------------------------------------------
Num(s, m, e) == [k |-> "num", s |-> s, m |-> m, e |-> e]
Inf(s) == [k |-> "inf", s |-> s, m |-> 0, e |-> 0]
NaN(s, frac) == [k |-> "nan", s |-> s, m |-> frac, e |-> 0]

RECURSIVE BitLen(_)
BitLen(m) == IF m = 0 THEN 0 ELSE 1 + BitLen(m \div 2)

RECURSIVE Normalise(_, _, _)
Normalise(s, m, e) ==
    IF m = 0 THEN Num(s, 0, 0)
    ELSE IF m % 2 = 0 THEN Normalise(s, m \div 2, e + 1)
    ELSE Num(s, m, e)

QuietBit == 4194304   \* 2^22, the is-quiet bit of a binary32 NaN
HiddenBit == 8388608  \* 2^23, the implicit leading bit of a binary32 significand

\* a NaN after a float<->double conversion on this build
Converted(frac, quiets) ==
    IF quiets /\ frac < QuietBit THEN frac + QuietBit ELSE frac

\* unpack "f": binary32 -> double (exact; a signalling NaN may be quieted)
UnpackF32(bs, is_big_endian, quiets) ==
    LET b == Ordered(bs, is_big_endian)
        s == b[1] \div 128
        E == (b[1] % 128) * 2 + b[2] \div 128
        M == (b[2] % 128) * 65536 + b[3] * 256 + b[4]
    IN  IF E = 255 THEN (IF M = 0 THEN Inf(s) ELSE NaN(s, Converted(M, quiets)))
        ELSE IF E = 0 THEN Normalise(s, M, 0 - 149)
        ELSE Normalise(s, HiddenBit + M, E - 150)

\* m / 2^sh rounded to nearest, ties to even
RoundShift(m, sh) ==
    IF sh > 30 THEN (IF sh = 31 /\ m > Pow2(30) THEN 1 ELSE 0)
    ELSE LET q == m \div Pow2(sh)
             r == m % Pow2(sh)
             half == Pow2(sh - 1)
         IN  IF r > half \/ (r = half /\ q % 2 = 1) THEN q + 1 ELSE q

\* the four bytes of a binary32 from sign, biased exponent and fraction
F32Bytes(s, E, M, is_big_endian) ==
    Ordered(<<s * 128 + E \div 2, (E % 2) * 128 + M \div 65536,
              (M \div 256) % 256, M % 256>>, is_big_endian)

\* pack "f": double -> binary32, round to nearest even;
\* OverflowError when a finite value rounds to infinity
PackF32(v, is_big_endian, quiets) ==
    IF v.k = "inf" THEN Ok(F32Bytes(v.s, 255, 0, is_big_endian))
    ELSE IF v.k = "nan" THEN Ok(F32Bytes(v.s, 255, Converted(v.m, quiets), is_big_endian))
    ELSE IF v.m = 0 THEN Ok(F32Bytes(v.s, 0, 0, is_big_endian))
    ELSE LET L == BitLen(v.m)
             x == v.e + L - 1
         IN  IF x >= 0 - 126
             THEN LET sig == IF L <= 24 THEN v.m * Pow2(24 - L)
                             ELSE RoundShift(v.m, L - 24)
                      carry == sig = 2 * HiddenBit
                      x2 == IF carry THEN x + 1 ELSE x
                      M == IF carry THEN 0 ELSE sig - HiddenBit
                  IN  IF x2 > 127 THEN Raise("OverflowError")
                      ELSE Ok(F32Bytes(v.s, x2 + 127, M, is_big_endian))
             ELSE LET u == IF v.e >= 0 - 149 THEN v.m * Pow2(v.e + 149)
                           ELSE RoundShift(v.m, 0 - 149 - v.e)
                  IN  Ok(F32Bytes(v.s, u \div HiddenBit, u % HiddenBit, is_big_endian))

\* ------------------------------------------------------------------------
\* JAUSoundAnimationSound
\* ------------------------------------------------------------------------
EntrySize == 32    \* struct.calcsize("I3fI6B6x")
HeaderSize == 8    \* struct.calcsize("H2B4x")

\* JAUSoundAnimationSound.__init__: the default values
NewSound ==
    [sound |-> Str(<<>>), start_frame |-> Num(0, 0, 0), unk8 |-> Num(0, 0, 0),
     pitch |-> Num(0, 1, 0), flags |-> 0, volume |-> 127, pitch_factor |-> 0,
     unk16 |-> 0, pan |-> 64, volume_factor |-> 0, unk19 |-> 0]

\* the first error among the packed fields, else their bytes joined
RECURSIVE Joined(_, _)
Joined(parts, acc) ==
    IF parts = <<>> THEN Ok(acc)
    ELSE IF ~Head(parts).ok THEN Head(parts)
    ELSE Joined(Tail(parts), acc \o Head(parts).val)

\* buffer with bytes written at offset off (pack_into)
WriteAt(buf, off, bs) ==
    SubSeq(buf, 1, off) \o bs \o SubSeq(buf, off + Len(bs) + 1, Len(buf))

\* JAUSoundAnimationSound._unpack_
SoundUnpack(buf, off, is_big_endian, table, quiets) ==
    IF Len(buf) - off < EntrySize THEN Raise("struct.error")
    ELSE LET sound_id == UnpackU32(Slice(buf, off, 4), is_big_endian)
             name == find_name(table, sound_id)
         IN  IF ~name.ok THEN name
             ELSE Ok([sound |-> name.val,
                      start_frame |-> UnpackF32(Slice(buf, off + 4, 4), is_big_endian, quiets),
                      unk8 |-> UnpackF32(Slice(buf, off + 8, 4), is_big_endian, quiets),
                      pitch |-> UnpackF32(Slice(buf, off + 12, 4), is_big_endian, quiets),
                      flags |-> UnpackU32(Slice(buf, off + 16, 4), is_big_endian),
                      volume |-> buf[off + 21],
                      pitch_factor |-> buf[off + 22],
                      unk16 |-> buf[off + 23],
                      pan |-> buf[off + 24],
                      volume_factor |-> buf[off + 25],
                      unk19 |-> buf[off + 26]])

\* faulty variant: volume and pan change places
SoundBytes_swapped(snd, sound_id, is_big_endian, quiets) ==
    Joined(<<PackU32(sound_id, is_big_endian),
             PackF32(snd.start_frame, is_big_endian, quiets),
             PackF32(snd.unk8, is_big_endian, quiets),
             PackF32(snd.pitch, is_big_endian, quiets),
             PackU32(snd.flags, is_big_endian),
             PackU8(snd.pan), PackU8(snd.pitch_factor), PackU8(snd.unk16),
             PackU8(snd.volume), PackU8(snd.volume_factor), PackU8(snd.unk19),
             Ok(Zeros(6))>>, <<>>)

\* the 32 bytes struct.pack_into writes for one entry ("I3fI6B6x")
SoundBytes(snd, sound_id, is_big_endian, quiets) ==
    Joined(<<PackU32(sound_id, is_big_endian),
             PackF32(snd.start_frame, is_big_endian, quiets),
             PackF32(snd.unk8, is_big_endian, quiets),
             PackF32(snd.pitch, is_big_endian, quiets),
             PackU32(snd.flags, is_big_endian),
             PackU8(snd.volume), PackU8(snd.pitch_factor), PackU8(snd.unk16),
             PackU8(snd.pan), PackU8(snd.volume_factor), PackU8(snd.unk19),
             Ok(Zeros(6))>>, <<>>)

\* faulty variant: an entry whose name is unknown is skipped
SoundPack_skip(snd, buf, off, is_big_endian, table, quiets) ==
    LET sound_id == find_id(table, snd.sound)
    IN  IF ~sound_id.ok THEN Ok(buf)
        ELSE LET bs == SoundBytes(snd, sound_id.val, is_big_endian, quiets)
             IN  IF ~bs.ok THEN bs ELSE Ok(WriteAt(buf, off, bs.val))

\* JAUSoundAnimationSound._pack_: the buffer after the call, or the exception
SoundPack(snd, buf, off, is_big_endian, table, quiets) ==
    LET sound_id == find_id(table, snd.sound)
    IN  IF ~sound_id.ok THEN sound_id
        ELSE LET bs == SoundBytes(snd, sound_id.val, is_big_endian, quiets)
             IN  IF ~bs.ok THEN bs ELSE Ok(WriteAt(buf, off, bs.val))

\* ------------------------------------------------------------------------
\* JAUSoundAnimation
\* ------------------------------------------------------------------------
\* JAUSoundAnimation.__init__
NewAnimation == [unk2 |-> 0, unk3 |-> 0, sounds |-> <<>>]

\* faulty variant: the loop stops at the end of the buffer and keeps what it read
RECURSIVE UnpackSounds_partial(_, _, _, _, _, _, _)
UnpackSounds_partial(anm, buf, off, left, is_big_endian, table, quiets) ==
    IF left = 0 \/ Len(buf) - off < EntrySize THEN Ok(anm)
    ELSE LET snd == SoundUnpack(buf, off, is_big_endian, table, quiets)
         IN  IF ~snd.ok THEN snd
             ELSE UnpackSounds_partial([anm EXCEPT !.sounds = Append(@, snd.val)], buf,
                                       off + EntrySize, left - 1, is_big_endian, table,
                                       quiets)

\* the loop of JAUSoundAnimation._unpack_ (lines 148-152)
RECURSIVE UnpackSounds(_, _, _, _, _, _, _)
UnpackSounds(anm, buf, off, left, is_big_endian, table, quiets) ==
    IF left = 0 THEN Ok(anm)
    ELSE LET snd == SoundUnpack(buf, off, is_big_endian, table, quiets)
         IN  IF ~snd.ok THEN snd
             ELSE UnpackSounds([anm EXCEPT !.sounds = Append(@, snd.val)], buf,
                               off + EntrySize, left - 1, is_big_endian, table, quiets)

\* JAUSoundAnimation._unpack_ on a new animation
AnimationUnpack(buf, off, is_big_endian, table, quiets) ==
    IF Len(buf) - off < HeaderSize THEN Raise("struct.error")
    ELSE LET num_entries == UnpackU16(Slice(buf, off, 2), is_big_endian)
             anm == [NewAnimation EXCEPT !.unk2 = buf[off + 3], !.unk3 = buf[off + 4]]
         IN  UnpackSounds(anm, buf, off + HeaderSize, num_entries,
                          is_big_endian, table, quiets)

\* faulty variant: the header carries the size of the entry block after unk3 ("H2BI")
HeaderBytes_size(count, unk2, unk3, is_big_endian) ==
    Joined(<<PackU16(count, is_big_endian), PackU8(unk2), PackU8(unk3),
             PackU32(count * EntrySize, is_big_endian)>>, <<>>)

\* the 8 bytes struct.pack_into writes for the header ("H2B4x")
HeaderBytes(count, unk2, unk3, is_big_endian) ==
    Joined(<<PackU16(count, is_big_endian), PackU8(unk2), PackU8(unk3),
             Ok(Zeros(4))>>, <<>>)

\* the loop of JAUSoundAnimation.makebin (lines 161-163)
RECURSIVE PackSounds(_, _, _, _, _, _)
PackSounds(sounds, buf, off_tmp, is_big_endian, table, quiets) ==
    IF sounds = <<>> THEN Ok(buf)
    ELSE LET r == SoundPack(Head(sounds), buf, off_tmp, is_big_endian, table, quiets)
         IN  IF ~r.ok THEN r
             ELSE PackSounds(Tail(sounds), r.val, off_tmp + EntrySize,
                             is_big_endian, table, quiets)

\* JAUSoundAnimation.makebin
makebin(anm, is_big_endian, table, quiets) ==
    LET buffer == Zeros(HeaderSize + Len(anm.sounds) * EntrySize)
        hdr == HeaderBytes(Len(anm.sounds), anm.unk2, anm.unk3, is_big_endian)
    IN  IF ~hdr.ok THEN hdr
        ELSE PackSounds(anm.sounds, WriteAt(buffer, 0, hdr.val), HeaderSize,
                        is_big_endian, table, quiets)

\* ------------------------------------------------------------------------
\* Helper I/O functions
\* ------------------------------------------------------------------------
from_buffer(table, buffer, offset, big_endian, quiets) ==
    AnimationUnpack(buffer, offset, big_endian, table, quiets)

pack_buffer(anm, big_endian, table, quiets) ==
    makebin(anm, big_endian, table, quiets)

\* json.dump followed by json.load of one float: the text keeps every finite
\* value, the sign of zero and of infinity; every NaN is written "NaN" and
\* read back as float("nan")
JsonFloat(v) == IF v.k = "nan" THEN NaN(0, QuietBit) ELSE v

\* the tree dump_json writes: sound.__dict__ of every entry
JsonSound(snd) ==
    [sound |-> snd.sound,
     start_frame |-> JsonFloat(snd.start_frame), unk8 |-> JsonFloat(snd.unk8),
     pitch |-> JsonFloat(snd.pitch), flags |-> snd.flags, volume |-> snd.volume,
     pitch_factor |-> snd.pitch_factor, unk16 |-> snd.unk16, pan |-> snd.pan,
     volume_factor |-> snd.volume_factor, unk19 |-> snd.unk19]

JsonTree(anm) ==
    [unk2 |-> anm.unk2, unk3 |-> anm.unk3,
     sounds |-> [i \in 1..Len(anm.sounds) |-> JsonSound(anm.sounds[i])]]

\* the entry from_json builds from one object of "sounds" (lines 217-227)
SoundFromJson(sound_entry) ==
    [NewSound EXCEPT !.sound = sound_entry.start_frame,
                     !.unk8 = sound_entry.unk8,
                     !.pitch = sound_entry.pitch,
                     !.flags = sound_entry.flags,
                     !.volume = sound_entry.volume,
                     !.pitch_factor = sound_entry.pitch_factor,
                     !.unk16 = sound_entry.unk16,
                     !.pan = sound_entry.pan,
                     !.volume_factor = sound_entry.volume_factor,
                     !.unk19 = sound_entry.unk19]

\* from_json on the tree of the file
AnimationFromJson(jsondata) ==
    [unk2 |-> jsondata.unk2, unk3 |-> jsondata.unk3,
     sounds |-> [i \in 1..Len(jsondata.sounds) |-> SoundFromJson(jsondata.sounds[i])]]

\* ------------------------------------------------------------------------
\* Inputs: lookup files
\* ------------------------------------------------------------------------
SourceLines ==
    {<<"a", ",", "5", LF>>, <<"b", ",", "5", LF>>, <<"a", ",", "9", LF>>,
     <<LF>>, <<"a", LF>>, <<"a", ",", "b", ",", "5", LF>>,
     <<"a", ",", "-", "5", LF>>, <<"b", ",", "x", LF>>}

\* the last line of a text file may lack its line terminator
WithoutFinalNewline(lines) ==
    IF lines = <<>> THEN lines
    ELSE [lines EXCEPT ![Len(lines)] = SubSeq(@, 1, Len(@) - 1)]

TableFiles ==
    LET terminated == UNION {[1..n -> SourceLines] : n \in 0..MaxLines}
    IN  terminated \cup {WithoutFinalNewline(f) : f \in terminated}

\* the lookup files of the codec runs: the three-line example and a shared ID
CodecFiles ==
    {<< <<"a", ",", "5", LF>>, <<"b", ",", "5", LF>>, <<"a", ",", "9", LF>> >>,
     << <<"a", ",", "5", LF>>, <<"b", ",", "5", LF>> >>}

SoundNames == {Str(<<"a">>), Str(<<"b">>), Str(<<"z">>)}
SoundIds == {5, 9, 0 - 5, 7}

\* ------------------------------------------------------------------------
\* Inputs: byte buffers.  A slot is written most significant byte first and
\* laid out in either byte order.
\* ------------------------------------------------------------------------
SlotWords ==
    << \* known ID 5; 1.0, 0.0, 0.5
       [w |-> << <<0, 0, 0, 5>>, <<63, 128, 0, 0>>, <<0, 0, 0, 0>>, <<63, 0, 0, 0>>,
                 <<0, 0, 1, 2>> >>,
        b |-> <<127, 1, 2, 64, 3, 4>>, pad |-> <<0, 0, 0, 0, 0, 0>>],
       \* known ID 9; a signalling NaN, -2.0, the smallest subnormal
       [w |-> << <<0, 0, 0, 9>>, <<127, 160, 0, 0>>, <<192, 0, 0, 0>>, <<0, 0, 0, 1>>,
                 <<0, 0, 0, 0>> >>,
        b |-> <<255, 0, 0, 0, 0, 9>>, pad |-> <<0, 0, 0, 0, 0, 0>>],
       \* ID 7, in no lookup file
       [w |-> << <<0, 0, 0, 7>>, <<0, 0, 0, 0>>, <<0, 0, 0, 0>>, <<63, 128, 0, 0>>,
                 <<0, 0, 0, 0>> >>,
        b |-> <<127, 0, 0, 64, 0, 0>>, pad |-> <<0, 0, 0, 0, 0, 0>>],
       \* known ID 5 with non-zero padding
       [w |-> << <<0, 0, 0, 5>>, <<64, 0, 0, 0>>, <<0, 0, 0, 0>>, <<63, 128, 0, 0>>,
                 <<0, 0, 0, 3>> >>,
        b |-> <<100, 0, 0, 64, 0, 0>>, pad |-> <<0, 0, 0, 0, 0, 1>> ] >>

RECURSIVE Flatten(_)
Flatten(ss) == IF ss = <<>> THEN <<>> ELSE Head(ss) \o Flatten(Tail(ss))

SlotBytes(slot, layout_be) ==
    Flatten([i \in 1..5 |-> Ordered(slot.w[i], layout_be)]) \o slot.b \o slot.pad

\* n slots starting at slot j, taken in rotation
SlotRun(j, n, layout_be) ==
    Flatten([i \in 1..n |-> SlotBytes(SlotWords[((j + i - 2) % Len(SlotWords)) + 1], layout_be)])

InputHeader(count, pad, layout_be) ==
    Ordered(<<count \div 256, count % 256>>, layout_be) \o <<3, 4>> \o pad

\* header claiming count entries, n slots, the last cut bytes missing
InputBuffer(j, n, count, cut, layout_be) ==
    LET pad == IF j = Len(SlotWords) THEN <<0, 0, 1, 0>> ELSE <<0, 0, 0, 0>>
        all == InputHeader(count, pad, layout_be) \o SlotRun(j, n, layout_be)
    IN  SubSeq(all, 1, Len(all) - cut)

\* buffers whose header claims the slots present or one more, whole or one
\* byte short; and buffers holding an animation behind 8 leading bytes
InputBuffers ==
    {InputBuffer(j, n, n + more, cut, be) :
        j \in 1..Len(SlotWords), n \in 0..MaxEntries, more \in {0, 1},
        cut \in {0, 1}, be \in BOOLEAN}
    \cup {Zeros(HeaderSize) \o InputBuffer(1, n, n, cut, TRUE) :
            n \in 1..MaxEntries, cut \in {0, 1}}

Offsets == {0, HeaderSize}

\* The model's integers are below 2^31: a buffer is decoded when the sound ID
\* and the flags of every entry the decoder would read are.
TopByte(buf, off, is_big_endian) == IF is_big_endian THEN buf[off + 1] ELSE buf[off + 4]

WithinIntegers(buf, off, is_big_endian) ==
    Len(buf) - off >= HeaderSize =>
        LET n == UnpackU16(Slice(buf, off, 2), is_big_endian)
            present == (Len(buf) - off - HeaderSize) \div EntrySize
            first(i) == off + HeaderSize + i * EntrySize
        IN  \A i \in 0..((IF n < present THEN n ELSE present) - 1) :
                /\ TopByte(buf, first(i), is_big_endian) < 128
                /\ TopByte(buf, first(i) + 16, is_big_endian) < 128

\* ------------------------------------------------------------------------
\* Inputs: what a caller appends and assigns
\* ------------------------------------------------------------------------
\* 16777217.0 (not a binary32 value) and 2.0^128 (beyond binary32)
NewSounds ==
    {[NewSound EXCEPT !.sound = Str(<<"a">>)],
     [NewSound EXCEPT !.sound = Str(<<"b">>), !.start_frame = Num(0, 16777217, 0),
                      !.volume = 255, !.unk19 = 255],
     [NewSound EXCEPT !.sound = Str(<<"z">>)]}

FieldEdits ==
    {<<"volume", 256>>, <<"pitch", Num(0, 1, 128)>>}

\* ------------------------------------------------------------------------
\* The state machine: a caller holding one table, one animation, one buffer
\* ------------------------------------------------------------------------
Op(name, big_endian, arg) == [name |-> name, be |-> big_endian, arg |-> arg]
Returned(v) == [val |-> v]

\* the outcome of an operation that leaves the caller's objects alone
Failed(e) == /\ err' = e
             /\ ret' = NoValue

\* JAUSoundIdTable(lookup_file_path).  The file object of line 33 is never
\* closed by the constructor: the runtime closes it when it finalizes the
\* object, at once (reference counting) or at a later collection.
NewTable ==
    /\ lookup = NoTable
    /\ op' = Op("JAUSoundIdTable", TRUE, 0)
    /\ LET r == TableInit(lookup_file)
       IN  /\ IF r.ok
              THEN lookup' = r.val /\ err' = "none" /\ ret' = Returned(r.val)
              ELSE lookup' = lookup /\ Failed(r.err)
           /\ \/ open_files' = open_files
              \/ lookup_file # NoFile /\ open_files' = open_files \cup {"lookup"}
    /\ UNCHANGED <<lookup_file, soundanm, data, bas_file, json_file, quiet_nan,
                   origin, packed, edits>>

\* the runtime finalizes the unreferenced file object
Finalize ==
    /\ "lookup" \in open_files
    /\ open_files' = open_files \ {"lookup"}
    /\ UNCHANGED <<lookup_file, lookup, soundanm, data, bas_file, json_file,
                   op, err, ret, quiet_nan, origin, packed, edits>>

FindName(sound_id) ==
    /\ lookup # NoTable
    /\ op' = Op("find_name", TRUE, sound_id)
    /\ LET r == find_name(lookup, sound_id)
       IN  IF r.ok THEN err' = "none" /\ ret' = Returned(r.val) ELSE Failed(r.err)
    /\ UNCHANGED <<lookup_file, lookup, soundanm, data, bas_file, json_file,
                   open_files, quiet_nan, origin, packed, edits>>

FindId(sound_name) ==
    /\ lookup # NoTable
    /\ op' = Op("find_id", TRUE, sound_name)
    /\ LET r == find_id(lookup, sound_name)
       IN  IF r.ok THEN err' = "none" /\ ret' = Returned(r.val) ELSE Failed(r.err)
    /\ UNCHANGED <<lookup_file, lookup, soundanm, data, bas_file, json_file,
                   open_files, quiet_nan, origin, packed, edits>>

\* soundanm = JAUSoundAnimation(lookup)
NewAnm ==
    /\ lookup # NoTable
    /\ op' = Op("JAUSoundAnimation", TRUE, 0)
    /\ soundanm' = NewAnimation
    /\ err' = "none" /\ ret' = Returned(NewAnimation)
    /\ origin' = [kind |-> "fresh"]
    /\ edits' = 0
    /\ UNCHANGED <<lookup_file, lookup, data, bas_file, json_file, open_files,
                   quiet_nan, packed>>

\* soundanm = from_buffer(lookup, data, offset, big_endian)
FromBuffer(offset, big_endian) ==
    /\ lookup # NoTable
    /\ WithinIntegers(data, offset, big_endian)
    /\ op' = Op("from_buffer", big_endian, offset)
    /\ LET r == from_buffer(lookup, data, offset, big_endian, quiet_nan)
       IN  IF r.ok
           THEN /\ soundanm' = r.val
                /\ err' = "none" /\ ret' = Returned(r.val)
                /\ origin' = [kind |-> "decoded", buf |-> data, be |-> big_endian,
                              off |-> offset]
                /\ edits' = 0
           ELSE /\ Failed(r.err)
                /\ UNCHANGED <<soundanm, origin, edits>>
    /\ UNCHANGED <<lookup_file, lookup, data, bas_file, json_file, open_files,
                   quiet_nan, packed>>

\* faulty variant: the header count of an animation that was decoded is the count
\* read at decoding, not the current length
PackBuffer_stale(big_endian) ==
    /\ soundanm # NoAnm
    /\ op' = Op("pack_buffer", big_endian, 0)
    /\ LET r == pack_buffer(soundanm, big_endian, lookup, quiet_nan)
           stale == Slice(origin.buf, origin.off, 2)
       IN  IF r.ok
           THEN /\ data' = IF origin.kind = "decoded" /\ origin.be = big_endian
                           THEN WriteAt(r.val, 0, stale) ELSE r.val
                /\ err' = "none" /\ ret' = Returned(data')
                /\ packed' = [anm |-> soundanm, be |-> big_endian,
                              pure |-> origin.kind = "decoded" /\ edits = 0]
           ELSE /\ Failed(r.err)
                /\ UNCHANGED <<data, packed>>
    /\ UNCHANGED <<lookup_file, lookup, soundanm, bas_file, json_file, open_files,
                   quiet_nan, origin, edits>>

\* data = pack_buffer(soundanm, big_endian)
PackBuffer(big_endian) ==
    /\ soundanm # NoAnm
    /\ op' = Op("pack_buffer", big_endian, 0)
    /\ LET r == pack_buffer(soundanm, big_endian, lookup, quiet_nan)
       IN  IF r.ok
           THEN /\ data' = r.val
                /\ err' = "none" /\ ret' = Returned(r.val)
                /\ packed' = [anm |-> soundanm, be |-> big_endian,
                              pure |-> origin.kind = "decoded" /\ edits = 0]
           ELSE /\ Failed(r.err)
                /\ UNCHANGED <<data, packed>>
    /\ UNCHANGED <<lookup_file, lookup, soundanm, bas_file, json_file, open_files,
                   quiet_nan, origin, edits>>

\* soundanm.append(sound)
AppendSound(sound) ==
    /\ soundanm # NoAnm
    /\ edits < MaxEdits
    /\ Len(soundanm.sounds) < MaxEntries
    /\ op' = Op("append", TRUE, 0)
    /\ soundanm' = [soundanm EXCEPT !.sounds = Append(@, sound)]
    /\ err' = "none" /\ ret' = NoValue
    /\ edits' = edits + 1
    /\ UNCHANGED <<lookup_file, lookup, data, bas_file, json_file, open_files,
                   quiet_nan, origin, packed>>

\* del soundanm[i]
RemoveSound(i) ==
    /\ soundanm # NoAnm
    /\ edits < MaxEdits
    /\ i \in 1..Len(soundanm.sounds)
    /\ op' = Op("remove", TRUE, i)
    /\ soundanm' = [soundanm EXCEPT !.sounds =
                        SubSeq(@, 1, i - 1) \o SubSeq(@, i + 1, Len(@))]
    /\ err' = "none" /\ ret' = NoValue
    /\ edits' = edits + 1
    /\ UNCHANGED <<lookup_file, lookup, data, bas_file, json_file, open_files,
                   quiet_nan, origin, packed>>

\* soundanm[-1].<field> = value
SetField(edit) ==
    /\ soundanm # NoAnm
    /\ edits < MaxEdits
    /\ soundanm.sounds # <<>>
    /\ op' = Op("setattr", TRUE, edit[1])
    /\ soundanm' = [soundanm EXCEPT !.sounds[Len(soundanm.sounds)][edit[1]] = edit[2]]
    /\ err' = "none" /\ ret' = NoValue
    /\ edits' = edits + 1
    /\ UNCHANGED <<lookup_file, lookup, data, bas_file, json_file, open_files,
                   quiet_nan, origin, packed>>

\* soundanm = from_file(lookup, file_path, big_endian)
FromFile(big_endian) ==
    /\ lookup # NoTable
    /\ bas_file # NoFile => WithinIntegers(bas_file, 0, big_endian)
    /\ op' = Op("from_file", big_endian, 0)
    /\ IF bas_file = NoFile
       THEN /\ Failed("FileNotFoundError")
            /\ UNCHANGED <<soundanm, origin, edits, open_files>>
       ELSE LET opened == open_files \cup {"bas"}
                r == AnimationUnpack(bas_file, 0, big_endian, lookup, quiet_nan)
            IN  /\ open_files' = opened \ {"bas"}      \* leaving the with block
                /\ IF r.ok
                   THEN /\ soundanm' = r.val
                        /\ err' = "none" /\ ret' = Returned(r.val)
                        /\ origin' = [kind |-> "decoded", buf |-> bas_file,
                                      be |-> big_endian, off |-> 0]
                        /\ edits' = 0
                   ELSE /\ Failed(r.err)
                        /\ UNCHANGED <<soundanm, origin, edits>>
    /\ UNCHANGED <<lookup_file, lookup, data, bas_file, json_file, quiet_nan, packed>>

\* write_file(soundanm, file_path, big_endian): makebin runs before open
WriteFile(big_endian) ==
    /\ soundanm # NoAnm
    /\ op' = Op("write_file", big_endian, 0)
    /\ LET r == makebin(soundanm, big_endian, lookup, quiet_nan)
       IN  IF r.ok
           THEN LET opened == open_files \cup {"bas"}
                IN  /\ bas_file' = r.val
                    /\ open_files' = opened \ {"bas"}
                    /\ err' = "none" /\ ret' = NoValue
           ELSE /\ Failed(r.err)
                /\ UNCHANGED <<bas_file, open_files>>
    /\ UNCHANGED <<lookup_file, lookup, soundanm, data, json_file, quiet_nan,
                   origin, packed, edits>>

\* dump_json(soundanm, file_path)
DumpJson ==
    /\ soundanm # NoAnm
    /\ op' = Op("dump_json", TRUE, 0)
    /\ LET opened == open_files \cup {"json"}
       IN  /\ json_file' = JsonTree(soundanm)
           /\ open_files' = opened \ {"json"}
    /\ err' = "none" /\ ret' = NoValue
    /\ UNCHANGED <<lookup_file, lookup, soundanm, data, bas_file, quiet_nan,
                   origin, packed, edits>>

\* soundanm = from_json(lookup, file_path)
FromJson ==
    /\ lookup # NoTable
    /\ op' = Op("from_json", TRUE, 0)
    /\ IF json_file = NoJson
       THEN /\ Failed("FileNotFoundError")
            /\ UNCHANGED <<soundanm, origin, edits, open_files>>
       ELSE LET opened == open_files \cup {"json"}
                anm == AnimationFromJson(json_file)
            IN  /\ open_files' = opened \ {"json"}
                /\ soundanm' = anm
                /\ err' = "none" /\ ret' = Returned(anm)
                /\ origin' = [kind |-> "json"]
                /\ edits' = 0
    /\ UNCHANGED <<lookup_file, lookup, data, bas_file, json_file, quiet_nan, packed>>

\* ------------------------------------------------------------------------
\* Specifications
\* ------------------------------------------------------------------------
Start(files, buffers, builds) ==
    /\ lookup_file \in files
    /\ data \in buffers
    /\ quiet_nan \in builds
    /\ soundanm = NoAnm
    /\ bas_file = NoFile
    /\ json_file = NoJson
    /\ open_files = {}
    /\ op = Op("start", TRUE, 0)
    /\ err = "none"
    /\ ret = NoValue
    /\ origin = [kind |-> "none"]
    /\ packed = NoPack
    /\ edits = 0

\* SpecTable: building and querying a lookup table
InitTable ==
    /\ Start(TableFiles \cup {NoFile}, {<<>>}, {TRUE})
    /\ lookup = NoTable

NextTable ==
    \/ NewTable
    \/ Finalize
    \/ \E sound_id \in SoundIds : FindName(sound_id)
    \/ \E sound_name \in SoundNames : FindId(sound_name)

SpecTable == InitTable /\ [][NextTable]_vars

\* Spec: decoding and re-encoding buffers in memory, with a table already built
Init ==
    /\ Start(CodecFiles, InputBuffers, BOOLEAN)
    /\ lookup = TableInit(lookup_file).val

Next ==
    \/ \E offset \in Offsets, big_endian \in BOOLEAN : FromBuffer(offset, big_endian)
    \/ \E big_endian \in BOOLEAN : PackBuffer(big_endian)

Spec == Init /\ [][Next]_vars

\* SpecEdit: a caller that builds or decodes an animation, edits it and encodes it
EditBuffers ==
    {InputBuffer(j, n, n, 0, be) : j \in {1, 2}, n \in {1, MaxEntries}, be \in BOOLEAN}

InitEdit ==
    /\ Start(CodecFiles, EditBuffers, {TRUE})
    /\ lookup = TableInit(lookup_file).val

NextEdit ==
    \/ packed = NoPack /\ NewAnm
    \/ packed = NoPack /\ \E big_endian \in BOOLEAN : FromBuffer(0, big_endian)
    \/ \E big_endian \in BOOLEAN : PackBuffer(big_endian)
    \/ \E sound \in NewSounds : AppendSound(sound)
    \/ \E i \in 1..MaxEntries : RemoveSound(i)
    \/ \E edit \in FieldEdits : SetField(edit)

SpecEdit == InitEdit /\ [][NextEdit]_vars

\* SpecFiles: the file helpers, on the buffers that hold whole animations
FileBuffers ==
    {InputBuffer(j, n, n, 0, be) : j \in 1..Len(SlotWords), n \in 0..MaxEntries,
                                   be \in BOOLEAN}

InitFiles ==
    /\ Start(CodecFiles, FileBuffers, {TRUE})
    /\ lookup = TableInit(lookup_file).val

NextFiles ==
    \/ \E big_endian \in BOOLEAN : FromBuffer(0, big_endian)
    \/ \E big_endian \in BOOLEAN : FromFile(big_endian)
    \/ \E big_endian \in BOOLEAN : WriteFile(big_endian)
    \/ DumpJson
    \/ FromJson

SpecFiles == InitFiles /\ [][NextFiles]_vars

\* ------------------------------------------------------------------------
\* Properties of the lookup table (SpecTable)
\* ------------------------------------------------------------------------
ExampleFile ==
    << <<"a", ",", "5", LF>>, <<"b", ",", "5", LF>>, <<"a", ",", "9", LF>> >>

\* the name and the ID a well-formed line carries
LineName(line) == Str(Split(Strip(line))[1])
LineId(line) == ParseInt(Split(Strip(line))[2]).val

\* the ID of the last line of the file that carries the name
LastId(file, name) ==
    LET k == CHOOSE i \in 1..Len(file) :
                 /\ LineName(file[i]) = name
                 /\ \A j \in (i + 1)..Len(file) : LineName(file[j]) # name
    IN  LineId(file[k])

\* the lines whose name is finally mapped to the ID
LinesMappedTo(file, id) ==
    {i \in 1..Len(file) : LastId(file, LineName(file[i])) = id}

Least(S) == CHOOSE i \in S : \A j \in S : i <= j

\* C4, as claimed: for the lines "a,5", "b,5", "a,9", resolve_id("a") is 9 and
\* resolve_name(5) is "a".
C4_ExampleAsClaimed ==
    /\ lookup_file = ExampleFile /\ op.name = "find_id" /\ op.arg = Str(<<"a">>)
          => ret = Returned(9)
    /\ lookup_file = ExampleFile /\ op.name = "find_name" /\ op.arg = 5
          => ret = Returned(Str(<<"a">>))

\* C4, amended: find_id(name) returns the ID of the last line carrying the name
\* (KeyError when no line does); find_name(id) returns the name of the first
\* line, in file order, whose name is finally mapped to id (KeyError when there
\* is none); for the lines "a,5", "b,5", "a,9", find_id("a") is 9 and
\* find_name(5) is "b".
C4_ResolverAsymmetry ==
    /\ op.name = "find_id" =>
          IF \E i \in 1..Len(lookup_file) : LineName(lookup_file[i]) = op.arg
          THEN err = "none" /\ ret = Returned(LastId(lookup_file, op.arg))
          ELSE err = "KeyError" /\ ret = NoValue
    /\ op.name = "find_name" =>
          IF LinesMappedTo(lookup_file, op.arg) # {}
          THEN /\ err = "none"
               /\ ret = Returned(LineName(lookup_file[Least(LinesMappedTo(lookup_file, op.arg))]))
          ELSE err = "KeyError" /\ ret = NoValue
    /\ lookup_file = ExampleFile /\ op.name = "find_id" /\ op.arg = Str(<<"a">>)
          => ret = Returned(9)
    /\ lookup_file = ExampleFile /\ op.name = "find_name" /\ op.arg = 5
          => ret = Returned(Str(<<"b">>))

\* C4 witness: the example file, and find_name(5) has returned "b"
C4_Witness ==
    /\ lookup_file = ExampleFile
    /\ op.name = "find_name" /\ op.arg = 5
    /\ ret = Returned(Str(<<"b">>))

\* the fields of a line as the claim counts them, from the commas
Commas(t) == {i \in 1..Len(t) : t[i] = ","}
IdField(t) == SubSeq(t, Least(Commas(t)) + 1, Len(t))
AllDigits(f) == f # <<>> /\ \A i \in 1..Len(f) : f[i] \in {Digits[d] : d \in 1..10}

\* a line C8 calls malformed: not exactly two fields, or an ID field that is
\* not a non-negative integer
MalformedAsClaimed(line) ==
    LET t == Strip(line)
    IN  Cardinality(Commas(t)) # 1 \/ ~AllDigits(IdField(t))

\* a line the constructor rejects: not exactly two fields, or an ID field that
\* is not an integer with an optional sign
Malformed(line) ==
    LET t == Strip(line)
        f == IdField(t)
    IN  \/ Cardinality(Commas(t)) # 1
        \/ ~(AllDigits(f) \/ (f # <<>> /\ Head(f) \in {"-", "+"} /\ AllDigits(Tail(f))))

Constructed == op.name = "JAUSoundIdTable" /\ lookup_file # NoFile

\* C8, as claimed: construction fails with a malformed-source error, and yields
\* no table, whenever a line does not split into exactly two fields or its ID
\* field is not a non-negative integer ("-5" included).
C8_RejectsAsClaimed ==
    Constructed /\ (\E i \in 1..Len(lookup_file) : MalformedAsClaimed(lookup_file[i]))
        => err = "ValueError" /\ lookup = NoTable /\ ret = NoValue

\* C8, amended: construction fails with ValueError, and yields no table, exactly
\* when a line does not split into exactly two fields or its ID field is not an
\* integer; a signed ID is an integer, so "a,-5" is accepted and maps a to -5.
C8_RejectsMalformed ==
    Constructed =>
        IF \E i \in 1..Len(lookup_file) : Malformed(lookup_file[i])
        THEN err = "ValueError" /\ lookup = NoTable /\ ret = NoValue
        ELSE /\ err = "none" /\ lookup # NoTable
             /\ \A i \in 1..Len(lookup_file) :
                    find_id(lookup, LineName(lookup_file[i])).val
                        = LastId(lookup_file, LineName(lookup_file[i]))

\* C8 witness: a file whose second line has an ID that is no integer was
\* rejected
C8_Witness ==
    /\ Constructed
    /\ Len(lookup_file) >= 2
    /\ ~Malformed(lookup_file[1])
    /\ Strip(lookup_file[2]) = <<"b", ",", "x">>
    /\ err = "ValueError" /\ lookup = NoTable

\* C10, as claimed: no operation returns or raises while a file it opened is
\* still open.
C10_FilesClosed == open_files = {}

\* ------------------------------------------------------------------------
\* Properties of decoding and re-encoding (Spec)
\* ------------------------------------------------------------------------
\* what the bytes of a buffer say, read directly
CountAt(buf, off, is_big_endian) ==
    IF is_big_endian THEN buf[off + 1] * 256 + buf[off + 2]
    ELSE buf[off + 2] * 256 + buf[off + 1]

SlotAt(off, i) == off + HeaderSize + (i - 1) * EntrySize

\* the slots of the claimed entries that lie wholly inside the buffer
CompleteSlots(buf, off, is_big_endian) ==
    {i \in 1..CountAt(buf, off, is_big_endian) : SlotAt(off, i) + EntrySize <= Len(buf)}

IdAt(buf, at, is_big_endian) ==
    IF is_big_endian
    THEN buf[at + 1] * 16777216 + buf[at + 2] * 65536 + buf[at + 3] * 256 + buf[at + 4]
    ELSE buf[at + 4] * 16777216 + buf[at + 3] * 65536 + buf[at + 2] * 256 + buf[at + 1]

UnknownId(buf, at, is_big_endian) ==
    \A k \in 1..Len(lookup) : lookup[k][2] # IdAt(buf, at, is_big_endian)

AllZero(buf, from, n) == \A k \in 1..n : buf[from + k] = 0

\* header padding and entry padding zero, length exactly 8 + 32 * N
WellFormed(buf, is_big_endian) ==
    /\ Len(buf) >= HeaderSize
    /\ Len(buf) = HeaderSize + EntrySize * CountAt(buf, 0, is_big_endian)
    /\ AllZero(buf, 4, 4)
    /\ \A i \in 1..CountAt(buf, 0, is_big_endian) : AllZero(buf, SlotAt(0, i) + 26, 6)

\* the float at buf[at .. at+4) is a signalling NaN: exponent all ones, quiet
\* bit clear, fraction not zero
SignallingNaN(buf, at, is_big_endian) ==
    LET hi == IF is_big_endian THEN buf[at + 1] ELSE buf[at + 4]
        h2 == IF is_big_endian THEN buf[at + 2] ELSE buf[at + 3]
        l2 == IF is_big_endian THEN buf[at + 3] ELSE buf[at + 2]
        lo == IF is_big_endian THEN buf[at + 4] ELSE buf[at + 1]
    IN  /\ hi % 128 = 127 /\ h2 >= 128
        /\ h2 < 192
        /\ (h2 # 128 \/ l2 # 0 \/ lo # 0)

HasSignallingNaN(buf, is_big_endian) ==
    \E i \in 1..CountAt(buf, 0, is_big_endian), f \in {4, 8, 12} :
        SignallingNaN(buf, SlotAt(0, i) + f, is_big_endian)

\* pack_buffer has just run on the unedited result of decoding a well-formed
\* buffer at offset 0, in the byte order of the decoding
Reencoded ==
    /\ op.name = "pack_buffer"
    /\ origin.kind = "decoded" /\ edits = 0
    /\ origin.off = 0 /\ origin.be = op.be
    /\ WellFormed(origin.buf, op.be)

\* C1, as claimed: for every well-formed buffer B and each byte order e,
\* pack_buffer(from_buffer(R, B, 0, e), e) returns bytes equal to B.
C1_ByteExactAsClaimed ==
    Reencoded => err = "none" /\ ret = Returned(origin.buf)

\* C1, amended: for every well-formed buffer B none of whose float fields
\* (start_frame, unk8, pitch) holds a signalling NaN, and each byte order e,
\* pack_buffer(from_buffer(R, B, 0, e), e) returns bytes equal to B.
C1_ByteExact ==
    Reencoded /\ ~HasSignallingNaN(origin.buf, op.be)
        => err = "none" /\ ret = Returned(origin.buf) /\ data = origin.buf

\* C1 witness: a little-endian buffer of at least one entry came back
\* byte for byte
C1_Witness ==
    /\ Reencoded /\ ~op.be
    /\ CountAt(origin.buf, 0, FALSE) >= 1
    /\ ~HasSignallingNaN(origin.buf, FALSE)
    /\ data = origin.buf

\* from_buffer has just run at offset 0 on the bytes pack_buffer made of an
\* unedited decoded animation, in the byte order of the encoding
Redecoded ==
    /\ op.name = "from_buffer" /\ op.arg = 0
    /\ packed # NoPack
    /\ packed.pure /\ packed.be = op.be

\* C2: decoding at offset 0 the bytes produced by encoding a decoded animation
\* A yields an animation equal to A (unk2, unk3, and the entries with their
\* names and field values in order), in both byte orders.
C2_RoundTrip ==
    Redecoded => err = "none" /\ ret = Returned(packed.anm) /\ soundanm = packed.anm

\* C2 witness: an animation of at least two entries, one holding a NaN, came
\* back from a little-endian round trip
C2_Witness ==
    /\ Redecoded /\ ~op.be
    /\ Len(packed.anm.sounds) >= 2
    /\ \E i \in 1..Len(packed.anm.sounds) : packed.anm.sounds[i].start_frame.k = "nan"
    /\ soundanm = packed.anm

\* fewer than 8 + 32 * N bytes from the decode offset
Truncated(buf, off, is_big_endian) ==
    \/ Len(buf) - off < HeaderSize
    \/ Len(buf) - off < HeaderSize + EntrySize * CountAt(buf, off, is_big_endian)

\* C6, as claimed: decoding a buffer that holds fewer than 8 + 32 * N bytes from
\* the decode offset fails with a truncation error and returns no animation.
C6_TruncationAsClaimed ==
    op.name = "from_buffer" /\ Truncated(data, op.arg, op.be)
        => err = "struct.error" /\ ret = NoValue

\* C6, amended: decoding a buffer that holds fewer than 8 + 32 * N bytes from
\* the decode offset fails and returns no animation; the error is the
\* truncation error, unless an entry lying wholly inside the buffer has a sound
\* ID that is not in the table, which raises the lookup error first.
C6_Truncation ==
    op.name = "from_buffer" /\ Truncated(data, op.arg, op.be)
        => /\ ret = NoValue
           /\ err = IF /\ Len(data) - op.arg >= HeaderSize
                       /\ \E i \in CompleteSlots(data, op.arg, op.be) :
                              UnknownId(data, SlotAt(op.arg, i), op.be)
                    THEN "KeyError" ELSE "struct.error"

\* C6 witness: a buffer of exactly 8 + 32 * N - 1 bytes, N >= 2, was refused
\* with the truncation error
C6_Witness ==
    /\ op.name = "from_buffer"
    /\ Len(data) - op.arg >= HeaderSize
    /\ CountAt(data, op.arg, op.be) >= 2
    /\ Len(data) - op.arg = HeaderSize + EntrySize * CountAt(data, op.arg, op.be) - 1
    /\ err = "struct.error" /\ ret = NoValue

\* ------------------------------------------------------------------------
\* Properties of encoding edited animations (SpecEdit)
\* ------------------------------------------------------------------------
KnownName(name) == \E k \in 1..Len(lookup) : lookup[k][1] = name

\* the entries of the animation whose sound name is not in the table
UnknownNames(anm) == {i \in 1..Len(anm.sounds) : ~KnownName(anm.sounds[i].sound)}

\* from_buffer has just run on a buffer with an entry, wholly inside the
\* buffer, whose sound ID is not in the table
DecodedUnknownId ==
    /\ op.name = "from_buffer"
    /\ Len(data) - op.arg >= HeaderSize
    /\ \E i \in CompleteSlots(data, op.arg, op.be) :
           UnknownId(data, SlotAt(op.arg, i), op.be)

\* pack_buffer has just run on an animation with an entry whose sound name is
\* not in the table
EncodedUnknownName == op.name = "pack_buffer" /\ UnknownNames(soundanm) # {}

\* the header, or an entry ahead of the first unknown name, holds a value that
\* struct cannot pack
PackFailsEarlier(anm, is_big_endian) ==
    \/ ~HeaderBytes(Len(anm.sounds), anm.unk2, anm.unk3, is_big_endian).ok
    \/ \E i \in 1..(Least(UnknownNames(anm)) - 1) :
           ~SoundBytes(anm.sounds[i], find_id(lookup, anm.sounds[i].sound).val,
                       is_big_endian, quiet_nan).ok

\* C5, as claimed: decoding a buffer with an unknown sound ID fails with a
\* lookup error, encoding an animation with an unknown sound name fails with a
\* lookup error, and neither returns an animation or bytes.
C5_UnknownAsClaimed ==
    /\ DecodedUnknownId => err = "KeyError" /\ ret = NoValue
    /\ EncodedUnknownName => err = "KeyError" /\ ret = NoValue

\* C5, amended: decoding a buffer with an unknown sound ID fails with a lookup
\* error; encoding an animation with an unknown sound name fails, with a lookup
\* error unless the header or an entry ahead of the first unknown name holds a
\* value that cannot be packed, which raises that packing error first; neither
\* returns an animation or bytes.
C5_Unknown ==
    /\ DecodedUnknownId => err = "KeyError" /\ ret = NoValue
    /\ EncodedUnknownName =>
          /\ ret = NoValue
          /\ IF PackFailsEarlier(soundanm, op.be)
             THEN err \in {"struct.error", "OverflowError"}
             ELSE err = "KeyError"

\* C5 witness: an animation whose second entry has an unknown name was refused
\* with KeyError
C5_Witness ==
    /\ EncodedUnknownName
    /\ Least(UnknownNames(soundanm)) = 2
    /\ err = "KeyError" /\ ret = NoValue

\* pack_buffer has just returned bytes
Encoded == op.name = "pack_buffer" /\ err = "none"

\* C7: every successful encode emits a header whose entry_count is the current
\* number of entries and an output of exactly 8 + 32 * (number of entries)
\* bytes, whatever appends and removals came before.
C7_HeaderAuthority ==
    Encoded =>
        /\ ret = Returned(data)
        /\ Len(data) = HeaderSize + EntrySize * Len(soundanm.sounds)
        /\ CountAt(data, 0, op.be) = Len(soundanm.sounds)

\* C7 witness: an animation decoded with one number of entries was edited to
\* another number and encoded
C7_Witness ==
    /\ Encoded
    /\ origin.kind = "decoded" /\ origin.be = op.be /\ edits >= 2
    /\ CountAt(origin.buf, origin.off, origin.be) # Len(soundanm.sounds)
    /\ Len(soundanm.sounds) >= 1

\* C9: a successful encode of an animation built from fresh entries emits zero
\* in the 4 header padding bytes and in the 6 trailing bytes of every slot, in
\* both byte orders.
C9_PaddingZero ==
    Encoded /\ origin.kind = "fresh" =>
        /\ Len(data) = HeaderSize + EntrySize * Len(soundanm.sounds)
        /\ AllZero(data, 4, 4)
        /\ \A i \in 1..Len(soundanm.sounds) : AllZero(data, SlotAt(0, i) + 26, 6)

\* C9 witness: a fresh animation of two entries, one of them populated field
\* by field with non-default values, was encoded little-endian
C9_Witness ==
    /\ Encoded /\ ~op.be
    /\ origin.kind = "fresh"
    /\ Len(soundanm.sounds) = 2
    /\ \E i \in 1..2 : soundanm.sounds[i].unk19 = 255

\* ------------------------------------------------------------------------
\* Properties of the file helpers (SpecFiles)
\* ------------------------------------------------------------------------
\* C3, as claimed: from_json applied to the tree dump_json wrote yields an
\* animation with the same unk2, unk3 and, entry by entry, the same sound name
\* and field values (the tree of the animation read is the tree in the file).
C3_ExchangeRoundTrip ==
    op.name = "from_json" /\ err = "none" => JsonTree(soundanm) = json_file

=============================================================================
